---- MODULE Spec2Model ----
(***************************************************************************)
(* Model of the ml-ui frontend: EffectTimeline's effect-period reduction,  *)
(* AnalysisControls / Dashboard request dispatch with the analysis store,  *)
(* and DatasetSelector's mount-time load and add/remove handlers.          *)
(***************************************************************************)
EXTENDS Integers, Sequences, FiniteSets, TLC

\* ------------------------------------------------------------------ bounds

\* longest effects series drawn as input
MaxLen == 4
\* number of renders of EffectTimeline over the same data
MaxRenders == 2
\* the slider positions drawn are LambdaMin, LambdaMin + SliderStride, ...
SliderStride == 10
\* the dates a DateRangePicker hands over are 1..MaxDate (0 is the empty string)
MaxDate == 2
\* window sizes typed into Dashboard's number input: 0..MaxTyped, and the default
MaxTyped == 2
\* handleSubmit / handleAnalysis calls recorded
MaxCalls == 1
\* longest datasets list
MaxDatasets == 4

\* JS null in a period's end field ({ start: idx, end: null })
NULL == -1

VARIABLES
    \* EffectTimeline
    effects,        \* data.effects: sequence of booleans (index 0 is effects[1])
    effects0,       \* the effects sequence as it was handed to the component
    idx,            \* index of the next reduce callback invocation (0-based)
    acc,            \* the reduce accumulator
    effectPeriods,  \* const effectPeriods of the render that has finished
    prevPeriods,    \* effectPeriods of the render before that one
    renders,        \* number of renders started
    tpc,            \* "reduce" while reducing, "done" when reduce has returned
    \* AnalysisControls
    params,         \* the params state of the form
    submitted,      \* the arguments onAnalyze has been called with, in order
    \* Dashboard
    windowSize,     \* the windowSize state of Dashboard
    selectedFeatures, \* the selectedFeatures state of Dashboard
    hpc,            \* position of handleAnalysis: "idle", "fetching", "parsing", "finished"
    posted,         \* the bodies POSTed to /api/analyze, in order
    logged,         \* number of console.error calls of handleAnalysis
    \* analysisStore
    analysisResults, \* "default" for the initial {}, else the payload set
    isLoading,
    storeError,     \* the store's error field
    \* DatasetSelector
    datasets,       \* the datasets state: a tagged list, or undefined
    loading,
    error,          \* "null" or the message set
    dpc,            \* position of fetchDatasets: "fetching", "parsing", "settled"
    data,           \* the parsed response body, once response.json() resolved
    err,            \* what the catch block of fetchDatasets caught
    selectValue,    \* the value the <select> element shows
    lastAction      \* the last handleDatasetChange call: kind, value, list before

timelineVars == <<effects, effects0, idx, acc, effectPeriods, prevPeriods, renders, tpc>>
analysisVars == <<params, submitted, windowSize, selectedFeatures, hpc, posted,
                  logged, analysisResults, isLoading, storeError>>
datasetVars == <<datasets, loading, error, dpc, data, err, selectValue, lastAction>>
vars == <<timelineVars, analysisVars, datasetVars>>

\* ------------------------------------------------------- EffectTimeline.jsx

BoolSeqs(n) == UNION {[1..k -> BOOLEAN] : k \in 0..n}

\* JS !v for the values an end field takes (null or a number)
Falsy(v) == v = NULL \/ v = 0

\* a mutant of Reducer: the closing branch stores the index after the falsy entry
Reducer_CloseLate(a, curr, i) ==
    IF curr /\ (Len(a) = 0 \/ Falsy(a[Len(a)].end))
    THEN Append(a, [start |-> i, end |-> NULL])
    ELSE IF ~curr /\ Len(a) # 0 /\ Falsy(a[Len(a)].end)
         THEN [a EXCEPT ![Len(a)].end = i + 1]
         ELSE a

\* the reduce callback (acc, curr, idx) => acc
Reducer(a, curr, i) ==
    IF curr /\ (Len(a) = 0 \/ Falsy(a[Len(a)].end))
    THEN Append(a, [start |-> i, end |-> NULL])
    ELSE IF ~curr /\ Len(a) # 0 /\ Falsy(a[Len(a)].end)
         THEN [a EXCEPT ![Len(a)].end = i]
         ELSE a

\* a mutant of ReduceInit: the accumulator is shared between renders
ReduceInit_Shared == effectPeriods

\* the initial value handed to reduce: a fresh []
ReduceInit == <<>>

\* EffectTimeline is rendered with some data.effects
TimelineMounted ==
    /\ effects \in BoolSeqs(MaxLen)
    /\ effects0 = effects
    /\ effectPeriods = <<>>
    /\ prevPeriods = <<>>
    /\ idx = 0
    /\ acc = ReduceInit
    /\ renders = 1
    /\ tpc = "reduce"

\* one invocation of the reduce callback on effects[idx]
ReduceStep ==
    /\ tpc = "reduce"
    /\ idx < Len(effects)
    /\ acc' = Reducer(acc, effects[idx + 1], idx)
    /\ idx' = idx + 1
    /\ UNCHANGED <<effects, effects0, effectPeriods, prevPeriods, renders, tpc>>
    /\ UNCHANGED <<analysisVars, datasetVars>>

\* reduce returns the accumulator, bound to effectPeriods
ReduceReturn ==
    /\ tpc = "reduce"
    /\ idx = Len(effects)
    /\ effectPeriods' = acc
    /\ prevPeriods' = effectPeriods
    /\ tpc' = "done"
    /\ UNCHANGED <<effects, effects0, idx, acc, renders>>
    /\ UNCHANGED <<analysisVars, datasetVars>>

\* the component renders again with the same data prop
Rerender ==
    /\ tpc = "done"
    /\ renders < MaxRenders
    /\ renders' = renders + 1
    /\ idx' = 0
    /\ acc' = ReduceInit
    /\ tpc' = "reduce"
    /\ UNCHANGED <<effects, effects0, effectPeriods, prevPeriods>>
    /\ UNCHANGED <<analysisVars, datasetVars>>

\* ----------------------------------------------------- AnalysisControls.jsx

\* the assets the Select offers
Assets == {"AAPL"}

AnalysisTypes == {"both", "heat_wave", "meteor_shower"}

\* Slider min={1.0} and max={3.0}, in tenths
LambdaMin == 10
LambdaMax == 30

\* the positions of the lambda slider that are drawn
SliderValues == {v \in LambdaMin..LambdaMax : (v - LambdaMin) % SliderStride = 0}

\* dates as the DateRangePicker hands them over; 0 stands for ''
Dates == 1..MaxDate

\* React.useState({...}): the initial params
InitialParams ==
    [assets |-> {}, startDate |-> 0, endDate |-> 0,
     analysisType |-> "both", lambda |-> 20, windowSize |-> 30]

\* onChange of the Assets select: setParams({ ...params, assets: value })
SetAssets ==
    /\ \E value \in SUBSET Assets :
           /\ value # params.assets
           /\ params' = [params EXCEPT !.assets = value]
    /\ UNCHANGED <<submitted, windowSize, selectedFeatures, hpc, posted, logged,
                   analysisResults, isLoading, storeError>>
    /\ UNCHANGED <<timelineVars, datasetVars>>

\* onDateChange: setParams({ ...params, startDate: start, endDate: end })
SetDates ==
    /\ \E start \in Dates, end \in Dates :
           params' = [params EXCEPT !.startDate = start, !.endDate = end]
    /\ UNCHANGED <<submitted, windowSize, selectedFeatures, hpc, posted, logged,
                   analysisResults, isLoading, storeError>>
    /\ UNCHANGED <<timelineVars, datasetVars>>

\* onChange of the Analysis Type select
SetAnalysisType ==
    /\ \E value \in AnalysisTypes :
           /\ value # params.analysisType
           /\ params' = [params EXCEPT !.analysisType = value]
    /\ UNCHANGED <<submitted, windowSize, selectedFeatures, hpc, posted, logged,
                   analysisResults, isLoading, storeError>>
    /\ UNCHANGED <<timelineVars, datasetVars>>

\* onChange of the lambda slider
SetLambda ==
    /\ \E value \in SliderValues :
           /\ value # params.lambda
           /\ params' = [params EXCEPT !.lambda = value]
    /\ UNCHANGED <<submitted, windowSize, selectedFeatures, hpc, posted, logged,
                   analysisResults, isLoading, storeError>>
    /\ UNCHANGED <<timelineVars, datasetVars>>

\* handleSubmit: e.preventDefault(); onAnalyze(params)
HandleSubmit ==
    /\ Len(submitted) < MaxCalls
    /\ submitted' = Append(submitted, params)
    /\ UNCHANGED <<params, windowSize, selectedFeatures, hpc, posted, logged,
                   analysisResults, isLoading, storeError>>
    /\ UNCHANGED <<timelineVars, datasetVars>>

\* ---------------------------------------------------------------- Dashboard

\* useState(30)
DefaultWindowSize == 30

\* the numbers typed into the Window Size input
TypedSizes == (0..MaxTyped) \cup {DefaultWindowSize}

\* onChange of the number input: setWindowSize(Number(e.target.value))
SetWindowSize ==
    /\ \E n \in TypedSizes :
           /\ n # windowSize
           /\ windowSize' = n
    /\ UNCHANGED <<params, submitted, selectedFeatures, hpc, posted, logged,
                   analysisResults, isLoading, storeError>>
    /\ UNCHANGED <<timelineVars, datasetVars>>

\* handleAnalysis up to its first await: the POST to /api/analyze is sent
HandleAnalysisPost ==
    /\ hpc = "idle"
    /\ Len(posted) < MaxCalls
    /\ posted' = Append(posted, [window_size |-> windowSize,
                                 features |-> selectedFeatures])
    /\ hpc' = "fetching"
    /\ UNCHANGED <<params, submitted, windowSize, selectedFeatures, logged,
                   analysisResults, isLoading, storeError>>
    /\ UNCHANGED <<timelineVars, datasetVars>>

\* fetch resolves with a response (of any status): response.json() is awaited
HandleAnalysisResponse ==
    /\ hpc = "fetching"
    /\ hpc' = "parsing"
    /\ UNCHANGED <<params, submitted, windowSize, selectedFeatures, posted, logged,
                   analysisResults, isLoading, storeError>>
    /\ UNCHANGED <<timelineVars, datasetVars>>

\* response.json() resolves: const data = ...; the response is not handled
HandleAnalysisData ==
    /\ hpc = "parsing"
    /\ hpc' = "finished"
    /\ UNCHANGED <<params, submitted, windowSize, selectedFeatures, posted, logged,
                   analysisResults, isLoading, storeError>>
    /\ UNCHANGED <<timelineVars, datasetVars>>

\* fetch or response.json() rejects: the catch block logs to the console
HandleAnalysisCatch ==
    /\ hpc \in {"fetching", "parsing"}
    /\ logged' = logged + 1
    /\ hpc' = "finished"
    /\ UNCHANGED <<params, submitted, windowSize, selectedFeatures, posted,
                   analysisResults, isLoading, storeError>>
    /\ UNCHANGED <<timelineVars, datasetVars>>

\* the button is clickable again once the handler has finished
HandleAnalysisIdle ==
    /\ hpc = "finished"
    /\ hpc' = "idle"
    /\ UNCHANGED <<params, submitted, windowSize, selectedFeatures, posted, logged,
                   analysisResults, isLoading, storeError>>
    /\ UNCHANGED <<timelineVars, datasetVars>>

\* ------------------------------------------------------ DatasetSelector.jsx

DatasetNames == {"a", "b", "c"}

\* the value of a JS expression that is undefined
Undefined == [kind |-> "undefined", items |-> <<>>]

List(s) == [kind |-> "list", items |-> s]

Range(s) == {s[i] : i \in 1..Len(s)}

NoDuplicates(s) == \A i \in 1..Len(s) : \A j \in 1..Len(s) : s[i] = s[j] => i = j

\* the lists of dataset names a server answers with
ServerLists ==
    {s \in UNION {[1..k -> DatasetNames] : k \in 0..Cardinality(DatasetNames)} :
        NoDuplicates(s)}

\* the JSON bodies response.json() resolves with: an object with a datasets
\* list, an object without a datasets field (an error reply), and null
Bodies ==
    {[kind |-> "datasets", items |-> s] : s \in ServerLists}
        \cup {[kind |-> "nofield", items |-> <<>>], [kind |-> "null", items |-> <<>>]}

NoData == [kind |-> "none", items |-> <<>>]

\* data.datasets, for a body that is an object
DatasetsField(body) ==
    IF body.kind = "datasets" THEN List(body.items) ELSE Undefined

\* s.filter(x => x !== v)
RECURSIVE Filter(_, _)
Filter(s, v) ==
    IF s = <<>> THEN <<>>
    ELSE IF s[1] # v THEN <<s[1]>> \o Filter(Tail(s), v)
    ELSE Filter(Tail(s), v)

\* what the component renders: the loading notice, the error notice, the
\* list, or nothing because datasets.map threw
View ==
    IF loading THEN "loading"
    ELSE IF error # "null" THEN "error"
    ELSE IF datasets.kind = "list" THEN "list"
    ELSE "crashed"

NoAction == [kind |-> "none", value |-> "", before |-> <<>>]

\* fetch resolves with a response (of any status): response.json() is awaited
FetchResponse ==
    /\ dpc = "fetching"
    /\ dpc' = "parsing"
    /\ UNCHANGED <<datasets, loading, error, data, err, selectValue, lastAction>>
    /\ UNCHANGED <<timelineVars, analysisVars>>

\* fetch rejects: catch sets the error, finally clears loading
FetchReject ==
    /\ dpc = "fetching"
    /\ err' = "fetch"
    /\ error' = "Failed to load datasets"
    /\ loading' = FALSE
    /\ dpc' = "settled"
    /\ UNCHANGED <<datasets, data, selectValue, lastAction>>
    /\ UNCHANGED <<timelineVars, analysisVars>>

\* response.json() resolves with an object: setDatasets(data.datasets),
\* finally clears loading
JsonObject ==
    /\ dpc = "parsing"
    /\ \E body \in Bodies :
           /\ body.kind # "null"
           /\ data' = body
           /\ datasets' = DatasetsField(body)
    /\ loading' = FALSE
    /\ dpc' = "settled"
    /\ UNCHANGED <<error, err, selectValue, lastAction>>
    /\ UNCHANGED <<timelineVars, analysisVars>>

\* response.json() rejects: catch sets the error, finally clears loading
JsonReject ==
    /\ dpc = "parsing"
    /\ err' = "json"
    /\ error' = "Failed to load datasets"
    /\ loading' = FALSE
    /\ dpc' = "settled"
    /\ UNCHANGED <<datasets, data, selectValue, lastAction>>
    /\ UNCHANGED <<timelineVars, analysisVars>>

\* response.json() resolves with null: data.datasets throws a TypeError,
\* catch sets the error, finally clears loading
JsonNull ==
    /\ dpc = "parsing"
    /\ data' = [kind |-> "null", items |-> <<>>]
    /\ err' = "TypeError"
    /\ error' = "Failed to load datasets"
    /\ loading' = FALSE
    /\ dpc' = "settled"
    /\ UNCHANGED <<datasets, selectValue, lastAction>>
    /\ UNCHANGED <<timelineVars, analysisVars>>

\* the value of e.target.value when a remove button is clicked: the button
\* element carries no value attribute
ButtonValue == ""

\* onChange of the select with action 'add': the user picks another option,
\* the placeholder ("") or one of the listed datasets
HandleAdd ==
    /\ View = "list"
    /\ Len(datasets.items) < MaxDatasets
    /\ \E selectedDataset \in {""} \cup Range(datasets.items) :
           /\ selectedDataset # selectValue
           /\ datasets' = List(Append(datasets.items, selectedDataset))
           /\ selectValue' = selectedDataset
           /\ lastAction' = [kind |-> "add", value |-> selectedDataset,
                             before |-> datasets.items]
    /\ UNCHANGED <<loading, error, dpc, data, err>>
    /\ UNCHANGED <<timelineVars, analysisVars>>

\* onClick of the remove button rendered for a listed dataset, action 'remove'
HandleRemove ==
    /\ View = "list"
    /\ \E clicked \in Range(datasets.items) :
           LET selectedDataset == ButtonValue
               newDatasets == Filter(datasets.items, selectedDataset)
           IN  /\ datasets' = List(newDatasets)
               /\ lastAction' = [kind |-> "remove", value |-> clicked,
                                 before |-> datasets.items]
    /\ UNCHANGED <<loading, error, dpc, data, err, selectValue>>
    /\ UNCHANGED <<timelineVars, analysisVars>>

\* ----------------------------------------------------------- specifications

\* no EffectTimeline is rendered
TimelineAbsent ==
    /\ effects = <<>>
    /\ effects0 = <<>>
    /\ idx = 0
    /\ acc = <<>>
    /\ effectPeriods = <<>>
    /\ prevPeriods = <<>>
    /\ renders = 1
    /\ tpc = "done"

\* AnalysisControls after its first render
ControlsMounted ==
    /\ params = InitialParams
    /\ submitted = <<>>

\* Dashboard after its first render
DashboardMounted ==
    /\ windowSize = DefaultWindowSize
    /\ selectedFeatures = <<>>
    /\ hpc = "idle"
    /\ posted = <<>>
    /\ logged = 0

\* the store as create() builds it: analysisResults: {}, isLoading: false,
\* error: null
StoreCreated ==
    /\ analysisResults = "default"
    /\ isLoading = FALSE
    /\ storeError = "null"

AnalysisMounted == ControlsMounted /\ DashboardMounted /\ StoreCreated

\* DatasetSelector after its first render: the effect has called fetch
DatasetsMounted ==
    /\ datasets = List(<<>>)
    /\ loading = TRUE
    /\ error = "null"
    /\ dpc = "fetching"
    /\ data = NoData
    /\ err = "none"
    /\ selectValue = ""
    /\ lastAction = NoAction

InitTimeline == TimelineMounted /\ AnalysisMounted /\ DatasetsMounted

NextTimeline == ReduceStep \/ ReduceReturn \/ Rerender

SpecTimeline == InitTimeline /\ [][NextTimeline]_vars

InitAnalysis == TimelineAbsent /\ AnalysisMounted /\ DatasetsMounted

NextAnalysis ==
    \/ SetAssets
    \/ SetDates
    \/ SetAnalysisType
    \/ SetLambda
    \/ HandleSubmit
    \/ SetWindowSize
    \/ HandleAnalysisPost
    \/ HandleAnalysisResponse
    \/ HandleAnalysisData
    \/ HandleAnalysisCatch
    \/ HandleAnalysisIdle

SpecAnalysis == InitAnalysis /\ [][NextAnalysis]_vars

InitDatasets == TimelineAbsent /\ AnalysisMounted /\ DatasetsMounted

NextDatasets ==
    \/ FetchResponse
    \/ FetchReject
    \/ JsonObject
    \/ JsonReject
    \/ JsonNull
    \/ HandleAdd
    \/ HandleRemove

SpecDatasets == InitDatasets /\ [][NextDatasets]_vars

\* ------------------------------------------- EffectTimeline: the properties

\* effects entry at 0-based index i
At(i) == effects[i + 1]

Last(s) == s[Len(s)]

\* the two-state machine (Outside initial, InsideEffect) the reduction is
\* compared with: scans eff from 0-based index i in state st with segments segs
RECURSIVE MachineRun(_, _, _, _)
MachineRun(eff, i, st, segs) ==
    IF i = Len(eff) THEN segs
    ELSE IF st = "Outside" /\ eff[i + 1]
         THEN MachineRun(eff, i + 1, "InsideEffect",
                         Append(segs, [start |-> i, end |-> NULL]))
    ELSE IF st = "InsideEffect" /\ ~eff[i + 1]
         THEN MachineRun(eff, i + 1, "Outside",
                         [segs EXCEPT ![Len(segs)].end = i])
    ELSE MachineRun(eff, i + 1, st, segs)

MachinePeriods(eff) == MachineRun(eff, 0, "Outside", <<>>)

\* [a, b) is a maximal truthy run of effects that is followed by a falsy entry
ClosedRun(a, b) ==
    /\ 0 <= a /\ a < b /\ b < Len(effects)
    /\ \A i \in a..(b - 1) : At(i)
    /\ ~At(b)
    /\ (a = 0 \/ ~At(a - 1))

\* 0-based first index of the truthy run that reaches the end of effects
FinalRunStart ==
    CHOOSE a \in 0..(Len(effects) - 1) :
        /\ \A i \in a..(Len(effects) - 1) : At(i)
        /\ (a = 0 \/ ~At(a - 1))

\* C1: when the reduction has returned, its period list equals the output of
\* the two-state machine over the same sequence: one period per maximal
\* truthy run, start = first index of the run, end = first index after it
\* (null when the run reaches the end of the series).
C1_ReductionEqualsMachine ==
    tpc = "done" => effectPeriods = MachinePeriods(effects)

\* C2: after any prefix, the accumulated periods are ordered by strictly
\* increasing start and pairwise non-overlapping, an open period (end = null)
\* extending to the end of the series: only the last period may be open.
C2_OrderedNonOverlapping ==
    \A i \in 1..Len(acc) : \A j \in 1..Len(acc) :
        i < j => /\ acc[i].start < acc[j].start
                 /\ acc[i].end # NULL
                 /\ acc[i].end <= acc[j].start

\* C3: once a truthy run [a, b) and the falsy entry at b have been processed,
\* the period opened at a is closed with end = b, and no period that starts
\* inside that run is left with end = null.
C3_RunClosedAtFirstFalsy ==
    \A a \in 0..Len(effects) : \A b \in 0..Len(effects) :
        (ClosedRun(a, b) /\ b < idx) =>
            /\ \E k \in 1..Len(acc) : acc[k].start = a /\ acc[k].end = b
            /\ \A k \in 1..Len(acc) :
                   (acc[k].start >= a /\ acc[k].start < b) => acc[k].end # NULL

\* C4: the result holds a period with end = null iff the last entry of the
\* sequence is truthy, and then it is the single period that starts at the
\* first index of the final truthy run.
C4_OpenIffEndsTruthy ==
    tpc = "done" =>
        LET open == {k \in 1..Len(effectPeriods) : effectPeriods[k].end = NULL}
            endsTruthy == Len(effects) > 0 /\ Last(effects)
        IN  /\ (open # {}) <=> endsTruthy
            /\ endsTruthy =>
                   /\ Cardinality(open) = 1
                   /\ \A k \in open : effectPeriods[k].start = FinalRunStart

\* C5: every accumulated period whose end is not null has start < end, a
\* truthy effects entry at every index in [start, end), and a falsy entry at
\* index end.
C5_ClosedPeriodCoversRun ==
    \A k \in 1..Len(acc) :
        acc[k].end # NULL =>
            /\ acc[k].start < acc[k].end
            /\ acc[k].start >= 0
            /\ acc[k].end < Len(effects)
            /\ \A i \in acc[k].start..(acc[k].end - 1) : At(i)
            /\ ~At(acc[k].end)

\* a finished reduction that holds a closed period after a run of two entries
C5_Witness ==
    /\ tpc = "done"
    /\ Len(effects) >= 3 /\ At(0) /\ At(1) /\ ~At(2)
    /\ \E k \in 1..Len(effectPeriods) : effectPeriods[k].end # NULL

ValidParams(p) ==
    /\ p.assets # {}
    /\ p.startDate # 0 /\ p.endDate # 0
    /\ p.startDate < p.endDate
    /\ p.windowSize >= 2
    /\ p.lambda >= LambdaMin /\ p.lambda <= LambdaMax

\* the same for the body Dashboard posts: features are its asset list
ValidBody(b) ==
    /\ b.features # <<>>
    /\ b.window_size >= 2

\* C6: a request is validated before any computation: onAnalyze is never
\* called, and /api/analyze never posted to, with an empty asset list, a
\* startDate that is not before endDate, or windowSize or lambda out of bounds.
C6_ValidatedBeforeDispatch ==
    /\ \A k \in 1..Len(submitted) : ValidParams(submitted[k])
    /\ \A k \in 1..Len(posted) : ValidBody(posted[k])

\* C7: once handleAnalysis has finished, exactly one of two outcomes holds:
\* the response payload has been set as analysisResults, or the store's error
\* is non-null; never neither, and never the default result after a failure.
C7_ResultOrError ==
    hpc = "finished" =>
        /\ (analysisResults # "default") # (storeError # "null")
        /\ (logged > 0) => (storeError # "null")

\* ------------------------------------- DatasetSelector: the properties

\* C9: datasets is a list in every reachable state; once the mount-time load
\* has settled loading is false, and before any add or remove either error =
\* 'Failed to load datasets' with datasets still the empty list (the fetch or
\* the parse threw) or error = null with datasets the list of the response.
C9_LoadOutcome ==
    /\ datasets.kind = "list"
    /\ (dpc = "settled") => ~loading
    /\ (dpc = "settled" /\ lastAction = NoAction) =>
           \/ /\ err # "none"
              /\ error = "Failed to load datasets"
              /\ datasets = List(<<>>)
           \/ /\ err = "none"
              /\ error = "null"
              /\ data.kind = "datasets"
              /\ datasets = List(data.items)

\* C10: the datasets list holds no duplicate and no empty string, an add of a
\* dataset already listed leaves the list unchanged, and the remove button of
\* a listed dataset yields the list without it, the rest unchanged in order.
C10_AddRemove ==
    View = "list" =>
        /\ NoDuplicates(datasets.items)
        /\ "" \notin Range(datasets.items)
        /\ (lastAction.kind = "add" /\ lastAction.value \in Range(lastAction.before))
               => datasets.items = lastAction.before
        /\ (lastAction.kind = "remove")
               => datasets.items = Filter(lastAction.before, lastAction.value)

====
